---- MODULE Spec2Model ----
(***************************************************************************)
(* FacilityFlow MVP: the issue lifecycle and its activity ledger.          *)
(*                                                                         *)
(* Two deployments of the same store are modelled:                         *)
(*   Spec      - the cloud deployment: the Supabase tables `issues` and    *)
(*               `issue_activity`, written by the adapter                  *)
(*               (lib/supabaseAdapter.ts) and by the component in cloud    *)
(*               mode (supaCreateIssue .. supaCloseIssue), whose controls  *)
(*               are rendered from the last fetched snapshot `view`;       *)
(*   SpecLocal - the component's in-memory React state, driven by the      *)
(*               rendered controls of both versions of the component.      *)
(* Times are milliseconds, as in Date.now().                               *)
(***************************************************************************)
EXTENDS Integers, Sequences, FiniteSets, TLC

VARIABLES
  issues,    \* id -> issue row (table `issues` / React state `issues`), ids are 1..Len
  activity,  \* id -> ledger of the issue, oldest first (table `issue_activity` / issue.activityLog)
  view,      \* cloud mode: the component's snapshot of `issues` from the last supaFetchIssues
  clock,     \* the latest instant any clock read has returned
  calls,     \* session user -> the adapter call of that session, between its awaits
  timing     \* the duration last passed to formatDuration, and the text it returned

vars == <<issues, activity, view, clock, calls, timing>>

----------------------------------------------------------------------------
(* Bounds of the model *)

MaxIssues == 1      \* issues that may be created
MaxElapsed == 1     \* milliseconds the clock may advance past T0
MaxRows == 3        \* ledger entries the tables may hold, over all issues
MaxLocalRows == 5   \* ledger entries the component may add to those it is mounted with
MaxCallRows == 3    \* ledger entries the tables may hold when adapter calls interleave
MaxDays == 2        \* whole days in the durations that are formatted
MaxPairRows == 5    \* ledger entries a sequence of status requests may add

----------------------------------------------------------------------------
(* Values *)

NULL == "null"
NoTime == 0 - 1                       \* an unset timestamp (null / undefined)
T0 == 4 * 60 * 60 * 1000             \* Date.now() when the component is mounted
TMax == T0 + MaxElapsed
SLA == 72 * 60 * 60 * 1000

Role == {"Operations Management", "Kitchen team", "Customer service team",
         "Marketing team", "Procurement team", "Facility team", "Finance team",
         "IT team", "Cleaning team", "Technicians", "Packaging team",
         "Logistics team"}

IssueStatus == {"open", "in_progress", "closed"}

ActivityAction == {"created", "assigned", "status_changed", "work_started",
                   "work_completed"}

localTechs == {[id |-> "tech-mike",  name |-> "Mike Johnson", dept |-> "Facilities"],
               [id |-> "tech-sarah", name |-> "Sarah Chen",   dept |-> "IT"],
               [id |-> "tech-david", name |-> "David Lopez",  dept |-> "Kitchen"],
               [id |-> "tech-anna",  name |-> "Anna Kim",     dept |-> "Operations"]}

\* The people who act, by profiles.id. Display names are free text: "user-3" is
\* a second person who is also called Mike Johnson.
PersonIds == {"tech-mike", "user-3"}

\* The table `profiles`: id -> name (NULL: no row for the id).
ProfileName(id) == CASE id = "tech-mike" -> "Mike Johnson"
                     [] id = "user-3"    -> "Mike Johnson"
                     [] OTHER            -> NULL

\* An acting party: the session user (id) with the name and role of currentUser.
Actors == {[id |-> p, name |-> ProfileName(p), role |-> r] : p \in PersonIds, r \in Role}

\* What the assignee pickers offer ("" is the Unassigned option).
TechInputs == {"", "tech-mike", "tech-sarah"}

\* The report form as submitted. Its assignee picker offers Unassigned and the
\* technicians of the chosen department; choosing a department resets the picker.
NewIssueForms ==
  UNION {{[title |-> "Broken AC", description |-> "No cooling", area |-> "Reception",
           department |-> d, priority |-> "normal", assignedTechId |-> t]
            : t \in {""} \cup {x.id : x \in {y \in localTechs : y.dept = d}}}
         : d \in {"Facilities", "Cleaning"}}
  \cup
  {[title |-> "", description |-> "No cooling", area |-> "Reception",
    department |-> "Facilities", priority |-> "normal", assignedTechId |-> ""]}

\* The inputs of issues.create that callers of the adapter pass: any profile id, or
\* an id with no profile row, may be given as the assignee.
CreateInputs ==
  {[title |-> "Broken AC", description |-> "No cooling", area |-> "Reception",
    department |-> "Facilities", priority |-> "normal", assignedTechId |-> t]
     : t \in {"", "tech-mike", "tech-sarah"}}

Ids == DOMAIN issues

\* The instants a clock read may return: never earlier than the previous read.
Times(from) == from .. TMax

Entry(at, actor, action, details) ==
  [at |-> at, actor |-> actor, action |-> action, details |-> details]

RECURSIVE SumLen(_, _)
SumLen(logs, n) == IF n = 0 THEN 0 ELSE Len(logs[n]) + SumLen(logs, n - 1)

\* The rows of the whole ledger.
Rows == SumLen(activity, Len(activity))

----------------------------------------------------------------------------
(* Permissions *)

canStartWorkPure(role, currentName, assignedName) ==
  role = "Operations Management"
    \/ (role = "Technicians" /\ currentName = assignedName)

canAssignPure(role) == role = "Operations Management" \/ role = "Technicians"

----------------------------------------------------------------------------
(* Shared helpers *)

\* Room left in the ledger for n more entries (bound of the model).
Room(n) == Rows + n <= MaxRows

\* What the best-effort select of a profile's name can give: the name of the row;
\* or nothing (NULL), when there is no row or the request comes back with an
\* error, which the caller does not look at.
ProfileLookup(id) == {ProfileName(id), NULL}

\* A variant of NameOrId without the fallback to the identifier.
NameOrUndefined(prof, id) == IF prof # NULL THEN prof ELSE "undefined"

\* prof?.name ?? id : the looked-up name, or the raw identifier in its place.
NameOrId(prof, id) == IF prof # NULL THEN prof ELSE id

\* profilesById[id]?.name || id, with the profile rows at hand.
DisplayName(id) == NameOrId(ProfileName(id), id)

\* Nondecreasing stamps for n clock reads made one after another, from `from` on.
RECURSIVE Stamps(_, _)
Stamps(n, from) ==
  IF n = 0 THEN {<<>>}
  ELSE UNION {{<<t>> \o s : s \in Stamps(n - 1, t)} : t \in Times(from)}

\* `${n}`: the decimal digits of a natural number.
RECURSIVE NumberText(_)
NumberText(n) ==
  LET digit == CASE n % 10 = 0 -> "0" [] n % 10 = 1 -> "1" [] n % 10 = 2 -> "2"
                 [] n % 10 = 3 -> "3" [] n % 10 = 4 -> "4" [] n % 10 = 5 -> "5"
                 [] n % 10 = 6 -> "6" [] n % 10 = 7 -> "7" [] n % 10 = 8 -> "8"
                 [] OTHER -> "9"
  IN IF n < 10 THEN digit ELSE NumberText(n \div 10) \o digit

\* parts.join(' ')
RECURSIVE Join(_)
Join(parts) ==
  IF parts = <<>> THEN ""
  ELSE IF Len(parts) = 1 THEN parts[1]
  ELSE parts[1] \o " " \o Join(Tail(parts))

\* A variant of formatDuration that always shows the units below the first one shown.
formatDurationAllUnits(ms) ==
  IF ms <= 0 THEN "0m"
  ELSE LET totalMinutes == ms \div 60000
           days == totalMinutes \div (60 * 24)
           hours == (totalMinutes % (60 * 24)) \div 60
           minutes == totalMinutes % 60
       IN (IF days # 0 THEN NumberText(days) \o "d " ELSE "")
          \o (IF days # 0 \/ hours # 0 THEN NumberText(hours) \o "h " ELSE "")
          \o NumberText(minutes) \o "m"

\* A variant of formatDuration that rounds to the nearest minute.
formatDurationRounded(ms) ==
  IF ms <= 0 THEN "0m"
  ELSE LET totalMinutes == (ms + 30000) \div 60000
           days == totalMinutes \div (60 * 24)
           hours == (totalMinutes % (60 * 24)) \div 60
           minutes == totalMinutes % 60
           dh == (IF days # 0 THEN <<NumberText(days) \o "d">> ELSE <<>>)
                 \o (IF hours # 0 THEN <<NumberText(hours) \o "h">> ELSE <<>>)
           parts == dh \o (IF minutes # 0 \/ dh = <<>>
                             THEN <<NumberText(minutes) \o "m">> ELSE <<>>)
       IN Join(parts)

\* formatDuration: milliseconds to "Xd Yh Zm". Durations are integers here, so the
\* !isFinite(ms) test never applies.
formatDuration(ms) ==
  IF ms <= 0 THEN "0m"
  ELSE LET totalMinutes == ms \div 60000
           days == totalMinutes \div (60 * 24)
           hours == (totalMinutes % (60 * 24)) \div 60
           minutes == totalMinutes % 60
           dh == (IF days # 0 THEN <<NumberText(days) \o "d">> ELSE <<>>)
                 \o (IF hours # 0 THEN <<NumberText(hours) \o "h">> ELSE <<>>)
           parts == dh \o (IF minutes # 0 \/ dh = <<>>
                             THEN <<NumberText(minutes) \o "m">> ELSE <<>>)
       IN Join(parts)

\* No duration has been formatted yet.
NoTiming == [ms |-> 0, text |-> NULL]

\* The durations that are formatted: negative ones (a clock that stepped back), and
\* every whole number of minutes up to MaxDays days and 23 h 59 m, exactly, one
\* second later, and one millisecond before the next minute.
Durations ==
  {0 - 60000, 0 - 1}
  \cup {((d * 24 + h) * 60 + m) * 60000 + r :
          d \in 0 .. MaxDays, h \in 0 .. 23, m \in 0 .. 59, r \in {0, 1000, 59999}}

\* A session with no adapter call running. The record keeps, of the call that ran
\* last: whether it wrote the issue row (wrote), whether it inserted any ledger row
\* (logged), and whether it ended with entries it had not inserted (missing).
IdleCall == [pc |-> "idle", i |-> 0, newStatus |-> NULL, cur_started_at |-> NoTime,
             todo |-> <<>>, wrote |-> FALSE, logged |-> FALSE, missing |-> FALSE]

----------------------------------------------------------------------------
(* The adapter: lib/supabaseAdapter.ts, over the tables *)

\* A variant of AppendRow that skips a row repeating the latest one.
AppendRowDedup(log, at, uid, action, details) ==
  IF log # <<>> /\ log[Len(log)].action = action /\ log[Len(log)].details = details
    THEN log
    ELSE Append(log, Entry(at, uid, action, details))

\* activity.append: one row, stamped by the database when it is inserted.
AppendRow(log, at, uid, action, details) == Append(log, Entry(at, uid, action, details))

\* A variant of CreateEntries that leaves out the entry for the initial assignee.
CreateEntriesCreatedOnly(tech, prof) ==
  <<[action |-> "created", details |-> "Issue created"]>>

\* The action tags and details issues.create appends, in order; prof is what the
\* lookup of the assignee's name gave.
CreateEntries(tech, prof) ==
  <<[action |-> "created", details |-> "Issue created"]>>
  \o (IF tech # NULL
        THEN <<[action |-> "assigned",
                details |-> "Initial assignee: " \o NameOrId(prof, tech)]>>
        ELSE <<>>)

\* The assignee an input names (assigned_tech_id ?? null).
Assignee(f) == IF f.assignedTechId = "" THEN NULL ELSE f.assignedTechId

\* issues.create, called by session user uid with the form f and a target_at
\* computed by the caller as its Date.now() + 72h (read tc); prof is what the lookup
\* of the assignee's name gives.
AdapterCreate(uid, f, prof) ==
  /\ Len(issues) < MaxIssues
  /\ LET tech == Assignee(f)
         es == CreateEntries(tech, prof)
         n == Len(es)
     IN /\ Room(n)
        /\ \E tc \in Times(clock) : \E t1 \in Times(tc) : \E at \in Stamps(n, t1) :
             LET row == [title |-> f.title, description |-> f.description,
                         area |-> f.area, department |-> f.department,
                         priority |-> f.priority, status |-> "open",
                         created_at |-> t1, target_at |-> tc + SLA,
                         created_by |-> uid, assigned |-> tech,
                         started_at |-> NoTime, resolved_at |-> NoTime]
             IN /\ issues' = Append(issues, row)
                /\ activity' = Append(activity,
                      [k \in 1 .. n |-> Entry(at[k], uid, es[k].action, es[k].details)])
                /\ clock' = at[n]
  /\ UNCHANGED <<view, calls, timing>>

\* issues.assign; prof is what the lookup of the assignee's name gives.
AdapterAssign(uid, i, tech, prof) ==
  /\ i \in Ids
  /\ Room(1)
  /\ \E t1 \in Times(clock) :
       LET details == IF tech # NULL THEN "Assigned to " \o NameOrId(prof, tech)
                                     ELSE "Unassigned"
       IN /\ issues' = [issues EXCEPT ![i].assigned = tech]
          /\ activity' = [activity EXCEPT ![i] = AppendRow(@, t1, uid, "assigned", details)]
          /\ clock' = t1
  /\ UNCHANGED <<view, calls, timing>>

\* A variant of StatusUpdates in which a close does not stamp started_at.
StatusUpdatesNoAutoStart(cur, newStatus, nowIso) ==
  [cur EXCEPT
     !.status = newStatus,
     !.started_at = IF newStatus = "in_progress" /\ cur.started_at = NoTime
                      THEN nowIso ELSE @,
     !.resolved_at = IF newStatus = "closed" THEN nowIso ELSE @]

\* A variant of StatusUpdates in which a move back to open clears resolved_at.
StatusUpdatesReopenClears(cur, newStatus, nowIso) ==
  [cur EXCEPT
     !.status = newStatus,
     !.started_at = IF newStatus \in {"in_progress", "closed"} /\ cur.started_at = NoTime
                      THEN nowIso ELSE @,
     !.resolved_at = IF newStatus = "closed" THEN nowIso
                     ELSE IF newStatus = "open" THEN NoTime ELSE @]

\* The row issues.updateStatus writes, from the row it read and its one clock read.
StatusUpdates(cur, newStatus, nowIso) ==
  [cur EXCEPT
     !.status = newStatus,
     !.started_at = IF newStatus \in {"in_progress", "closed"} /\ cur.started_at = NoTime
                      THEN nowIso ELSE @,
     !.resolved_at = IF newStatus = "closed" THEN nowIso ELSE @]

\* A variant of StatusEntries that leaves out the auto-start entry of a close.
StatusEntriesNoAutoStart(cur, newStatus) ==
  (IF newStatus = "in_progress" /\ cur.started_at = NoTime
     THEN <<[action |-> "work_started", details |-> "Started work"]>> ELSE <<>>)
  \o (IF newStatus = "closed"
     THEN <<[action |-> "work_completed", details |-> "Marked complete"]>> ELSE <<>>)
  \o <<[action |-> "status_changed", details |-> "Status → " \o newStatus]>>

\* The action tags and details issues.updateStatus appends, in order.
StatusEntries(cur, newStatus) ==
  (IF newStatus = "in_progress" /\ cur.started_at = NoTime
     THEN <<[action |-> "work_started", details |-> "Started work"]>> ELSE <<>>)
  \o (IF newStatus = "closed" /\ cur.started_at = NoTime
     THEN <<[action |-> "work_started", details |-> "Auto-start on close"]>> ELSE <<>>)
  \o (IF newStatus = "closed"
     THEN <<[action |-> "work_completed", details |-> "Marked complete"]>> ELSE <<>>)
  \o <<[action |-> "status_changed", details |-> "Status → " \o newStatus]>>

\* issues.updateStatus
AdapterUpdateStatus(uid, i, newStatus) ==
  /\ i \in Ids
  /\ LET cur == issues[i]
         es == StatusEntries(cur, newStatus)
     IN /\ Room(Len(es))
        /\ \E nowIso \in Times(clock) : \E at \in Stamps(Len(es), nowIso) :
             /\ issues' = [issues EXCEPT ![i] = StatusUpdates(cur, newStatus, nowIso)]
             /\ activity' = [activity EXCEPT ![i] =
                   @ \o [k \in 1 .. Len(es) |->
                           Entry(at[k], uid, es[k].action, es[k].details)]]
             /\ clock' = at[Len(es)]
  /\ UNCHANGED <<view, calls, timing>>

----------------------------------------------------------------------------
(* The adapter's calls await by await: each database request is a step of its
   own, other sessions' requests may come between two of them, and each request
   may come back with an error, which the call throws. *)

CallRoom(n) == Rows + n <= MaxCallRows

\* The session is idle again; what its call did stays on record.
Finished(c) ==
  [IdleCall EXCEPT !.wrote = c.wrote, !.logged = c.logged, !.missing = c.todo # <<>>]

\* issues.create: the insert into `issues`; the entries are still to be appended.
CreateInsert(p, f) ==
  /\ calls[p].pc = "idle"
  /\ Len(issues) < MaxIssues
  /\ LET tech == Assignee(f)
     IN \E tc \in Times(clock) : \E t1 \in Times(tc) : \E prof \in ProfileLookup(tech) :
          /\ issues' = Append(issues,
                [title |-> f.title, description |-> f.description, area |-> f.area,
                 department |-> f.department, priority |-> f.priority,
                 status |-> "open", created_at |-> t1, target_at |-> tc + SLA,
                 created_by |-> p, assigned |-> tech,
                 started_at |-> NoTime, resolved_at |-> NoTime])
          /\ activity' = Append(activity, <<>>)
          /\ clock' = t1
          /\ calls' = [calls EXCEPT ![p] =
                [IdleCall EXCEPT
                   !.pc = "append", !.i = Len(issues) + 1, !.wrote = TRUE,
                   !.todo = CreateEntries(tech, prof)]]
  /\ UNCHANGED <<view, timing>>

\* issues.updateStatus: the read of the current row (cur).
UpdateStatusRead(p, i, newStatus) ==
  /\ calls[p].pc = "idle"
  /\ i \in Ids
  /\ calls' = [calls EXCEPT ![p] =
        [IdleCall EXCEPT !.pc = "read", !.i = i, !.newStatus = newStatus,
                         !.cur_started_at = issues[i].started_at]]
  /\ UNCHANGED <<issues, activity, view, clock, timing>>

\* issues.updateStatus: the update of the row with `updates`, computed from cur.
UpdateStatusWrite(p) ==
  /\ calls[p].pc = "read"
  /\ LET c == calls[p]
         cur == [started_at |-> c.cur_started_at]
     IN \E nowIso \in Times(clock) :
          /\ issues' = [issues EXCEPT ![c.i] =
                [@ EXCEPT
                   !.status = c.newStatus,
                   !.started_at = IF c.newStatus \in {"in_progress", "closed"}
                                     /\ cur.started_at = NoTime
                                    THEN nowIso ELSE @,
                   !.resolved_at = IF c.newStatus = "closed" THEN nowIso ELSE @]]
          /\ clock' = nowIso
          /\ calls' = [calls EXCEPT ![p] =
                [c EXCEPT !.pc = "append", !.wrote = TRUE,
                          !.todo = StatusEntries(cur, c.newStatus)]]
  /\ UNCHANGED <<activity, view, timing>>

\* issues.updateStatus: the update comes back with an error, thrown.
UpdateStatusWriteFails(p) ==
  /\ calls[p].pc = "read"
  /\ calls' = [calls EXCEPT ![p] = Finished(@)]
  /\ UNCHANGED <<issues, activity, view, clock, timing>>

\* activity.append of the call's next entry; the call returns after its last one.
ActivityAppend(p) ==
  /\ calls[p].pc = "append"
  /\ CallRoom(1)
  /\ LET c == calls[p]
         e == Head(c.todo)
         after == [c EXCEPT !.todo = Tail(@), !.logged = TRUE]
     IN \E at \in Times(clock) :
          /\ activity' = [activity EXCEPT ![c.i] =
                AppendRow(@, at, p, e.action, e.details)]
          /\ clock' = at
          /\ calls' = [calls EXCEPT ![p] =
                IF after.todo = <<>> THEN Finished(after) ELSE after]
  /\ UNCHANGED <<issues, view, timing>>

\* activity.append comes back with an error, thrown: the call ends here.
ActivityAppendFails(p) ==
  /\ calls[p].pc = "append"
  /\ calls' = [calls EXCEPT ![p] = Finished(@)]
  /\ UNCHANGED <<issues, activity, view, clock, timing>>

----------------------------------------------------------------------------
(* The component in cloud mode: components/FacilityFlowMVP.tsx, first version *)

\* supaFetchIssues: what the rendered controls read of each fetched issue.
Fetch(rows) ==
  [i \in DOMAIN rows |->
     [status |-> rows[i].status,
      assignedName |-> IF rows[i].assigned # NULL THEN DisplayName(rows[i].assigned)
                                                  ELSE NULL]]

\* The four required fields of the report form.
FormComplete(f) ==
  f.title # "" /\ f.description # "" /\ f.area # "" /\ f.department # ""

\* canStartWork, on an issue as the component holds it.
canStartWork(a, assignedName) ==
  IF a.role = "Operations Management" THEN TRUE
  ELSE IF a.role = "Technicians" THEN assignedName = a.name
  ELSE FALSE

\* createIssueAction, cloud branch: supaCreateIssue, then refreshIssues.
\* In cloud mode the assignee picker offers Unassigned only.
CloudCreateIssue(a, f) ==
  /\ FormComplete(f)
  /\ f.assignedTechId = ""
  /\ Len(issues) < MaxIssues
  /\ \E tc \in Times(clock) : \E t1 \in Times(tc) :
       LET row == [title |-> f.title, description |-> f.description, area |-> f.area,
                   department |-> f.department, priority |-> f.priority,
                   status |-> "open", created_at |-> t1, target_at |-> tc + SLA,
                   created_by |-> a.id, assigned |-> NULL,
                   started_at |-> NoTime, resolved_at |-> NoTime]
       IN /\ issues' = Append(issues, row)
          /\ activity' = Append(activity, <<>>)
          /\ clock' = t1
  /\ view' = Fetch(issues')
  /\ UNCHANGED <<calls, timing>>

\* assignIssueAction, cloud branch: supaAssignIssue, then refreshIssues. The picker
\* is rendered for an issue shown as not closed, for a role that may assign.
CloudAssignIssue(a, i) ==
  /\ i \in DOMAIN view
  /\ view[i].status # "closed"
  /\ canAssignPure(a.role)
  /\ issues' = [issues EXCEPT ![i].assigned = NULL]
  /\ view' = Fetch(issues')
  /\ UNCHANGED <<activity, clock, calls, timing>>

\* startWorkAction, cloud branch: supaStartWork, then refreshIssues.
CloudStartWork(a, i) ==
  /\ i \in DOMAIN view
  /\ view[i].status = "open"
  /\ canStartWork(a, view[i].assignedName)
  /\ \E now \in Times(clock) :
       /\ issues' = [issues EXCEPT ![i].status = "in_progress", ![i].started_at = now]
       /\ clock' = now
  /\ view' = Fetch(issues')
  /\ UNCHANGED <<activity, calls, timing>>

\* closeIssueAction, cloud branch: supaCloseIssue, then refreshIssues.
CloudCloseIssue(a, i) ==
  /\ i \in DOMAIN view
  /\ view[i].status = "in_progress"
  /\ \E now \in Times(clock) :
       /\ issues' = [issues EXCEPT ![i].status = "closed", ![i].resolved_at = now]
       /\ clock' = now
  /\ view' = Fetch(issues')
  /\ UNCHANGED <<activity, calls, timing>>

\* What the query of an issue's entries with .order('at', { ascending: false }) may
\* return: the rows of the ledger, newest first; rows with equal `at` come in an
\* order the query does not determine.
NewestFirst(log) ==
  {[k \in DOMAIN log |-> log[pi[k]]] : pi \in
     {q \in Permutations(DOMAIN log) :
        \A j, k \in DOMAIN log : j < k => log[q[j]].at >= log[q[k]].at}}

\* list.slice(0, 3).reverse(): the first three of the fetched rows, turned round.
CloudWindow(list) ==
  LET m == IF Len(list) < 3 THEN Len(list) ELSE 3
  IN [k \in 1 .. m |-> list[m + 1 - k]]

\* issue.activityLog.slice(-3): the last three entries of the list the issue holds.
LocalWindow(log) ==
  SubSeq(log, (IF Len(log) < 3 THEN 0 ELSE Len(log) - 3) + 1, Len(log))

\* refreshIssues, run by the realtime subscription.
CloudRefresh ==
  /\ view' = Fetch(issues)
  /\ UNCHANGED <<issues, activity, clock, calls, timing>>

----------------------------------------------------------------------------
(* The component on its in-memory state: both versions of FacilityFlowMVP.tsx *)

\* localTechs.find(t => t.id === id) || null, as the identifier kept in the model.
FindTech(id) == IF \E t \in localTechs : t.id = id THEN id ELSE NULL

\* A variant of autoAssignTechnician that never picks a technician.
autoAssignNobody(department) == NULL

\* autoAssignTechnician: the technician of the department, if it has one.
autoAssignTechnician(department) ==
  IF \E t \in localTechs : t.dept = department
    THEN (CHOOSE t \in localTechs : t.dept = department).id
    ELSE NULL

\* assignedTechnician?.name
TechName(id) == IF id = NULL THEN NULL ELSE (CHOOSE t \in localTechs : t.id = id).name

\* The issues the component is mounted with (initialIssues / the local seed).
initialIssues ==
  << [title |-> "Broken coffee machine in break room", description |-> "Not turning on",
      area |-> "Reception", department |-> "Facilities", priority |-> "normal",
      status |-> "open", created_at |-> T0 - 2 * 60 * 60 * 1000,
      target_at |-> T0 + 70 * 60 * 60 * 1000, created_by |-> "John Doe",
      assigned |-> NULL, started_at |-> NoTime, resolved_at |-> NoTime],
     [title |-> "WiFi down in Admin Offices", description |-> "Network outage",
      area |-> "Admin Offices", department |-> "IT", priority |-> "urgent",
      status |-> "in_progress", created_at |-> T0 - 4 * 60 * 60 * 1000,
      target_at |-> T0 + 68 * 60 * 60 * 1000, created_by |-> "Jane Smith",
      assigned |-> "tech-sarah", started_at |-> T0 - 3 * 60 * 60 * 1000,
      resolved_at |-> NoTime] >>

initialLogs ==
  << << Entry(T0 - 2 * 60 * 60 * 1000, "John Doe", "created", "Issue created") >>,
     << Entry(T0 - 4 * 60 * 60 * 1000, "Jane Smith", "created", "Issue created"),
        Entry(T0 - 210 * 60 * 1000, "Ops Bot", "assigned", "Assigned to Sarah Chen"),
        Entry(T0 - 3 * 60 * 60 * 1000, "Sarah Chen", "work_started", "Started work") >> >>

LocalRoom(n) == Rows + n <= SumLen(initialLogs, Len(initialLogs)) + MaxLocalRows

\* The issue and the ledger a submitted report yields (both versions), given the
\* assignee chosen for it and the two clock reads: createdAt, and targetAt's.
NewIssue(a, f, assigned, createdAt, now2) ==
  [title |-> f.title, description |-> f.description, area |-> f.area,
   department |-> f.department, priority |-> f.priority, status |-> "open",
   created_at |-> createdAt, target_at |-> now2 + SLA, created_by |-> a.name,
   assigned |-> assigned, started_at |-> NoTime, resolved_at |-> NoTime]

baseLog(a, assigned, createdAt) ==
  <<Entry(createdAt, a.name, "created", "Issue created")>>
  \o (IF assigned # NULL
        THEN <<Entry(createdAt, a.name, "assigned",
                     "Initial assignee: " \o TechName(assigned))>>
        ELSE <<>>)

SubmitIssue(a, f, assigned) ==
  /\ FormComplete(f)
  /\ Len(issues) < Len(initialIssues) + MaxIssues
  /\ LocalRoom(2)
  /\ \E createdAt \in Times(clock) : \E now2 \in Times(createdAt) :
       /\ issues' = Append(issues, NewIssue(a, f, assigned, createdAt, now2))
       /\ activity' = Append(activity, baseLog(a, assigned, createdAt))
       /\ clock' = now2
  /\ UNCHANGED <<view, calls, timing>>

\* createIssueAction, local branch (first version)
createIssueAction(a, f) ==
  SubmitIssue(a, f, IF f.assignedTechId # "" THEN FindTech(f.assignedTechId)
                                            ELSE autoAssignTechnician(f.department))

\* handleSubmitIssue (second version): explicit ?? fallback
handleSubmitIssue(a, f) ==
  LET explicit == IF f.assignedTechId # "" THEN FindTech(f.assignedTechId) ELSE NULL
      fallback == autoAssignTechnician(f.department)
  IN SubmitIssue(a, f, IF explicit # NULL THEN explicit ELSE fallback)

\* A variant of assignIssue whose picker is rendered for closed issues as well.
assignIssueAnyStatus(a, i, techId) ==
  /\ i \in Ids
  /\ canAssignPure(a.role)
  /\ LocalRoom(1)
  /\ \E now \in Times(clock) :
       /\ issues' = [issues EXCEPT ![i].assigned = FindTech(techId)]
       /\ activity' = [activity EXCEPT ![i] =
             Append(@, Entry(now, a.name, "assigned", "Assignee changed"))]
       /\ clock' = now
  /\ UNCHANGED <<view, calls, timing>>

\* assignIssueAction, local branch, and assignIssue: the same update. The picker is
\* rendered for an issue that is not closed, when canAssign.
assignIssue(a, i, techId) ==
  /\ i \in Ids
  /\ issues[i].status # "closed"
  /\ canAssignPure(a.role)
  /\ LocalRoom(1)
  /\ \E now \in Times(clock) :
       LET tech == FindTech(techId)
           prevAssignee == IF issues[i].assigned # NULL THEN TechName(issues[i].assigned)
                                                        ELSE "Unassigned"
           nextAssignee == IF tech # NULL THEN TechName(tech) ELSE "Unassigned"
       IN /\ issues' = [issues EXCEPT ![i].assigned = tech]
          /\ activity' = [activity EXCEPT ![i] =
                Append(@, Entry(now, a.name, "assigned",
                                "Assignee changed: " \o prevAssignee \o " → " \o nextAssignee))]
          /\ clock' = now
  /\ UNCHANGED <<view, calls, timing>>

\* A variant of StatusRow that also clears the assignee.
StatusRowUnassigns(issue, newStatus, at) ==
  [issue EXCEPT
     !.status = newStatus,
     !.assigned = NULL,
     !.started_at = IF newStatus \in {"in_progress", "closed"} /\ issue.started_at = NoTime
                      THEN at[1] ELSE @,
     !.resolved_at = IF newStatus = "closed" THEN at[2] ELSE @]

\* The body of updateIssueStatus for the issue it maps: the new row and ledger,
\* given the instants its clock reads return (at[1] <= at[2] <= at[3]).
StatusRow(issue, newStatus, at) ==
  [issue EXCEPT
     !.status = newStatus,
     !.started_at = IF newStatus \in {"in_progress", "closed"} /\ issue.started_at = NoTime
                      THEN at[1] ELSE @,
     !.resolved_at = IF newStatus = "closed" THEN at[2] ELSE @]

\* A variant of StatusLogs that rebuilds the ledger from the new entries alone.
StatusLogsRebuilt(issue, logs, newStatus, actor, at) ==
  (IF newStatus = "in_progress" /\ issue.started_at = NoTime
     THEN <<Entry(at[1], actor, "work_started", "Started work")>> ELSE <<>>)
  \o (IF newStatus = "closed"
        THEN <<Entry(at[2], actor, "work_completed", "Marked complete")>> ELSE <<>>)
  \o <<Entry(at[3], actor, "status_changed", "Status → " \o newStatus)>>

StatusLogs(issue, logs, newStatus, actor, at) ==
  logs
  \o (IF newStatus = "in_progress" /\ issue.started_at = NoTime
        THEN <<Entry(at[1], actor, "work_started", "Started work")>> ELSE <<>>)
  \o (IF newStatus = "closed" /\ issue.started_at = NoTime
        THEN <<Entry(at[1], actor, "work_started", "Auto-start on close")>> ELSE <<>>)
  \o (IF newStatus = "closed"
        THEN <<Entry(at[2], actor, "work_completed", "Marked complete")>> ELSE <<>>)
  \o <<Entry(at[3], actor, "status_changed", "Status → " \o newStatus)>>

updateIssueStatus(a, i, newStatus) ==
  /\ i \in Ids
  /\ LocalRoom(Len(StatusLogs(issues[i], <<>>, newStatus, a.name, <<T0, T0, T0>>)))
  /\ \E at \in Stamps(3, clock) :
       /\ issues' = [issues EXCEPT ![i] = StatusRow(@, newStatus, at)]
       /\ activity' = [activity EXCEPT ![i] =
             StatusLogs(issues[i], @, newStatus, a.name, at)]
       /\ clock' = at[3]
  /\ UNCHANGED <<view, calls, timing>>

\* The Start Work button (second version): shown for an open issue when canStartWork.
StartWorkButton(a, i) ==
  /\ i \in Ids
  /\ issues[i].status = "open"
  /\ canStartWork(a, TechName(issues[i].assigned))
  /\ updateIssueStatus(a, i, "in_progress")

\* The Mark Complete button (second version): shown for an issue in progress.
MarkCompleteButton(a, i) ==
  /\ i \in Ids
  /\ issues[i].status = "in_progress"
  /\ updateIssueStatus(a, i, "closed")

\* startWorkAction, local branch (first version), behind its Start Work button.
startWorkAction(a, i) ==
  /\ i \in Ids
  /\ issues[i].status = "open"
  /\ canStartWork(a, TechName(issues[i].assigned))
  /\ LocalRoom(2)
  /\ \E at \in Stamps(2, clock) :
       /\ issues' = [issues EXCEPT ![i].status = "in_progress", ![i].started_at = at[1]]
       /\ activity' = [activity EXCEPT ![i] =
             @ \o <<Entry(at[1], a.name, "work_started", "Started work"),
                    Entry(at[2], a.name, "status_changed", "Status → in_progress")>>]
       /\ clock' = at[2]
  /\ UNCHANGED <<view, calls, timing>>

\* closeIssueAction, local branch (first version), behind its Mark Complete button.
closeIssueAction(a, i) ==
  /\ i \in Ids
  /\ issues[i].status = "in_progress"
  /\ LocalRoom(Len(StatusLogs(issues[i], <<>>, "closed", a.name, <<T0, T0, T0>>)))
  /\ \E at \in Stamps(3, clock) :
       /\ issues' = [issues EXCEPT ![i] = StatusRow(@, "closed", at)]
       /\ activity' = [activity EXCEPT ![i] =
             StatusLogs(issues[i], @, "closed", a.name, at)]
       /\ clock' = at[3]
  /\ UNCHANGED <<view, calls, timing>>

----------------------------------------------------------------------------
Init ==
  /\ issues = <<>>
  /\ activity = <<>>
  /\ view = <<>>
  /\ clock = T0
  /\ calls = [p \in PersonIds |-> IdleCall]
  /\ timing = NoTiming

Next ==
  \/ \E uid \in PersonIds, f \in CreateInputs : \E prof \in ProfileLookup(Assignee(f)) :
       AdapterCreate(uid, f, prof)
  \/ \E uid \in PersonIds, i \in Ids, tech \in (TechInputs \ {""}) \cup {NULL} :
       \E prof \in ProfileLookup(tech) : AdapterAssign(uid, i, tech, prof)
  \/ \E uid \in PersonIds, i \in Ids, s \in IssueStatus : AdapterUpdateStatus(uid, i, s)
  \/ \E a \in Actors, f \in NewIssueForms : CloudCreateIssue(a, f)
  \/ \E a \in Actors, i \in Ids : CloudAssignIssue(a, i)
  \/ \E a \in Actors, i \in Ids : CloudStartWork(a, i)
  \/ \E a \in Actors, i \in Ids : CloudCloseIssue(a, i)
  \/ CloudRefresh

Spec == Init /\ [][Next]_vars

InitLocal ==
  /\ issues = initialIssues
  /\ activity = initialLogs
  /\ view = <<>>
  /\ clock = T0
  /\ calls = [p \in PersonIds |-> IdleCall]
  /\ timing = NoTiming

NextLocal ==
  \/ \E a \in Actors, f \in NewIssueForms : createIssueAction(a, f)
  \/ \E a \in Actors, f \in NewIssueForms : handleSubmitIssue(a, f)
  \/ \E a \in Actors, i \in Ids, techId \in TechInputs : assignIssue(a, i, techId)
  \/ \E a \in Actors, i \in Ids : StartWorkButton(a, i)
  \/ \E a \in Actors, i \in Ids : MarkCompleteButton(a, i)
  \/ \E a \in Actors, i \in Ids : startWorkAction(a, i)
  \/ \E a \in Actors, i \in Ids : closeIssueAction(a, i)

SpecLocal == InitLocal /\ [][NextLocal]_vars

\* The adapter used by two sessions whose calls interleave. StartWork and Close are
\* the calls of interest: updateStatus(id, 'in_progress') and updateStatus(id, 'closed').
NextCalls ==
  \/ \E p \in PersonIds, f \in CreateInputs : CreateInsert(p, f)
  \/ \E p \in PersonIds, i \in Ids, s \in {"in_progress", "closed"} :
       UpdateStatusRead(p, i, s)
  \/ \E p \in PersonIds : UpdateStatusWrite(p)
  \/ \E p \in PersonIds : UpdateStatusWriteFails(p)
  \/ \E p \in PersonIds : ActivityAppend(p)
  \/ \E p \in PersonIds : ActivityAppendFails(p)

SpecCalls == Init /\ [][NextCalls]_vars

\* formatDuration on its own: the helper is handed a duration and returns its text.
InitFormat ==
  /\ issues = <<>>
  /\ activity = <<>>
  /\ view = <<>>
  /\ clock = T0
  /\ calls = [p \in PersonIds |-> IdleCall]
  /\ timing \in {[ms |-> d, text |-> NULL] : d \in Durations}

FormatDuration ==
  /\ timing.text = NULL
  /\ timing' = [timing EXCEPT !.text = formatDuration(timing.ms)]
  /\ UNCHANGED <<issues, activity, view, clock, calls>>

NextFormat == FormatDuration

SpecFormat == InitFormat /\ [][NextFormat]_vars

\* The two status updates side by side: the same initial issue is held once by the
\* component in memory (issue 1) and once as a row of the table (issue 2), and
\* every status request is made of both: updateIssueStatus(1, s) by the current
\* user and issues.updateStatus(2, s) by the same person's session.
InitPair ==
  /\ \E k \in DOMAIN initialIssues :
       /\ issues = <<initialIssues[k], initialIssues[k]>>
       /\ activity = <<initialLogs[k], initialLogs[k]>>
  /\ view = <<>>
  /\ clock = T0
  /\ calls = [p \in PersonIds |-> IdleCall]
  /\ timing = NoTiming

StatusRequest(a, newStatus) ==
  LET es == StatusEntries(issues[2], newStatus)
  IN /\ Len(activity[2]) + Len(es) <= Len(initialLogs[2]) + MaxPairRows
     /\ \E at \in Stamps(3, clock) : \E nowIso \in Times(clock) :
          \E dbAt \in Stamps(Len(es), nowIso) :
            /\ issues' = <<StatusRow(issues[1], newStatus, at),
                           StatusUpdates(issues[2], newStatus, nowIso)>>
            /\ activity' = <<StatusLogs(issues[1], activity[1], newStatus, a.name, at),
                             activity[2] \o [k \in 1 .. Len(es) |->
                               Entry(dbAt[k], a.id, es[k].action, es[k].details)]>>
            /\ clock' = IF at[3] > dbAt[Len(es)] THEN at[3] ELSE dbAt[Len(es)]
     /\ UNCHANGED <<view, calls, timing>>

NextPair == \E a \in Actors, newStatus \in IssueStatus : StatusRequest(a, newStatus)

SpecPair == InitPair /\ [][NextPair]_vars

----------------------------------------------------------------------------
(* The operations of the lifecycle, as steps of either deployment *)

IsSet(t) == t # NoTime

\* StartWork on issue i: the adapter's updateStatus(id, 'in_progress') or a Start
\* Work control of the component.
StartWorkStep(i) ==
  \/ \E uid \in PersonIds : AdapterUpdateStatus(uid, i, "in_progress")
  \/ \E a \in Actors : CloudStartWork(a, i)
  \/ \E a \in Actors : startWorkAction(a, i)
  \/ \E a \in Actors : StartWorkButton(a, i)

\* Close on issue i: the adapter's updateStatus(id, 'closed') or a Mark Complete
\* control of the component.
CloseStep(i) ==
  \/ \E uid \in PersonIds : AdapterUpdateStatus(uid, i, "closed")
  \/ \E a \in Actors : CloudCloseIssue(a, i)
  \/ \E a \in Actors : closeIssueAction(a, i)
  \/ \E a \in Actors : MarkCompleteButton(a, i)

\* Close on issue i, performed for actor a through the component.
ComponentClose(a, i) ==
  CloudCloseIssue(a, i) \/ closeIssueAction(a, i) \/ MarkCompleteButton(a, i)

\* Assign on issue i, performed for actor a: the session user of the adapter call,
\* or the current user of the component.
AssignStep(a, i) ==
  \/ \E tech \in (TechInputs \ {""}) \cup {NULL} :
       \E prof \in ProfileLookup(tech) : AdapterAssign(a.id, i, tech, prof)
  \/ CloudAssignIssue(a, i)
  \/ \E techId \in TechInputs : assignIssue(a, i, techId)

\* Create with the form or input f, through the adapter or the component.
CreateStep(f) ==
  \/ \E uid \in PersonIds : \E prof \in ProfileLookup(Assignee(f)) :
       AdapterCreate(uid, f, prof)
  \/ \E a \in Actors : CloudCreateIssue(a, f)
  \/ \E a \in Actors : createIssueAction(a, f)
  \/ \E a \in Actors : handleSubmitIssue(a, f)

\* Assign on issue i through the adapter's issues.assign.
AssignCall(i) ==
  \E uid \in PersonIds, tech \in (TechInputs \ {""}) \cup {NULL} :
    \E prof \in ProfileLookup(tech) : AdapterAssign(uid, i, tech, prof)

\* How an assignee is rendered in the details of an entry.
Shown(id) == IF id = NULL THEN "Unassigned" ELSE DisplayName(id)

\* What the two status updates are compared on: the status and which of the two
\* timestamps are set; and the action tags of a ledger, in order.
Pattern(issue) == <<issue.status, IsSet(issue.started_at), IsSet(issue.resolved_at)>>

Tags(log) == [k \in DOMAIN log |-> log[k].action]

\* The entries of a ledger that carry the given action tag.
CountTag(log, tag) == Cardinality({k \in DOMAIN log : log[k].action = tag})

----------------------------------------------------------------------------
(* Claims *)

\* C1: in every reachable state, an issue is closed if and only if both its
\* started_at and its resolved_at are set.
C1_ClosedIffStartedAndResolved ==
  \A i \in Ids :
    (issues[i].status = "closed")
      <=> (IsSet(issues[i].started_at) /\ IsSet(issues[i].resolved_at))

\* C2: in every reachable state, an open issue has neither started_at nor
\* resolved_at set, and an issue in progress has started_at set and resolved_at
\* unset.
C2_OpenAndInProgressTimestamps ==
  \A i \in Ids :
    /\ issues[i].status = "open"
         => (~IsSet(issues[i].started_at) /\ ~IsSet(issues[i].resolved_at))
    /\ issues[i].status = "in_progress"
         => (IsSet(issues[i].started_at) /\ ~IsSet(issues[i].resolved_at))

\* C3: the status of an issue only moves forward: no step takes a closed issue to
\* open or in_progress, and no step takes an issue in progress back to open.
C3_StatusMovesForward ==
  [][\A i \in Ids :
       /\ issues[i].status = "closed" => issues'[i].status = "closed"
       /\ issues[i].status = "in_progress" => issues'[i].status # "open"]_vars

\* C4: whenever both timestamps of an issue are set, resolved_at is not earlier
\* than started_at.
C4_ResolvedNotBeforeStarted ==
  \A i \in Ids :
    (IsSet(issues[i].started_at) /\ IsSet(issues[i].resolved_at))
      => issues[i].resolved_at >= issues[i].started_at

\* C5: StartWork on an issue that is in progress or closed, and Close on an issue
\* that is closed, leave the issue and its ledger unchanged.
C5_InvalidTransitionChangesNothing ==
  [][\A i \in Ids :
       /\ (issues[i].status # "open" /\ StartWorkStep(i))
            => (issues'[i] = issues[i] /\ activity'[i] = activity[i])
       /\ (issues[i].status = "closed" /\ CloseStep(i))
            => (issues'[i] = issues[i] /\ activity'[i] = activity[i])]_vars

\* C6: StartWork is performed only for an actor whose role is Operations
\* Management, or whose role is Technicians and who is the assignee of the issue
\* (the same identity). Stated for the component acting on a fresh snapshot.
C6_StartWorkOnlyByOpsOrAssignee ==
  [][\A a \in Actors, i \in Ids :
       (view = Fetch(issues) /\ CloudStartWork(a, i))
         => \/ a.role = "Operations Management"
            \/ (a.role = "Technicians" /\ issues[i].assigned = a.id)]_vars

\* C7: Close is performed only for an actor whom the StartWork rule admits:
\* Operations Management, or the Technicians-role assignee of the issue.
C7_CloseOnlyByOpsOrAssignee ==
  [][\A a \in Actors, i \in Ids :
       ComponentClose(a, i) => canStartWork(a, TechName(issues[i].assigned))]_vars

\* C8: Assign is performed only for an actor whose role is Operations Management
\* or Technicians; for the other ten roles it changes nothing.
C8_AssignOnlyByOpsOrTechnicians ==
  [][\A a \in Actors, i \in Ids : AssignStep(a, i) => canAssignPure(a.role)]_vars

\* C9: in every ledger, each work_completed entry is preceded by a work_started
\* entry of the same issue.
C9_CompletedPrecededByStarted ==
  \A i \in Ids : \A k \in DOMAIN activity[i] :
    activity[i][k].action = "work_completed"
      => \E j \in 1 .. (k - 1) : activity[i][j].action = "work_started"

\* C10: every step that changes the status of an issue adds exactly one
\* status_changed entry to the ledger of that issue.
C10_OneStatusChangedPerChange ==
  [][\A i \in Ids :
       issues'[i].status # issues[i].status
         => CountTag(activity'[i], "status_changed")
              = CountTag(activity[i], "status_changed") + 1]_vars

\* C11: when StartWork invocations on the same open issue interleave, the ledger of
\* the issue gains at most one work_started entry of a StartWork ("Started work").
C11_AtMostOneStartedEntry ==
  \A i \in Ids :
    Cardinality({k \in DOMAIN activity[i] :
                   /\ activity[i][k].action = "work_started"
                   /\ activity[i][k].details = "Started work"}) <= 1

\* C12: the row change and the ledger entries of one call are a unit: once a call
\* has returned or thrown, either it wrote the row and inserted all of its
\* entries, or it wrote nothing and inserted none.
C12_UpdateAndEntriesAreOneUnit ==
  \A p \in PersonIds :
    calls[p].pc = "idle"
      => IF calls[p].wrote THEN ~calls[p].missing ELSE ~calls[p].logged

\* C13: Close on an issue whose started_at is unset appends exactly three entries
\* to the ledger of the issue, in this order: work_started (the auto-start),
\* work_completed, status_changed.
C13_CloseWithoutStartEntries ==
  [][\A i \in Ids :
       (issues[i].started_at = NoTime /\ CloseStep(i))
         => LET n == Len(activity[i])
            IN /\ Len(activity'[i]) = n + 3
               /\ SubSeq(activity'[i], 1, n) = activity[i]
               /\ activity'[i][n + 1].action = "work_started"
               /\ activity'[i][n + 1].details = "Auto-start on close"
               /\ activity'[i][n + 2].action = "work_completed"
               /\ activity'[i][n + 3].action = "status_changed"]_vars

\* An issue closed without a prior start: its ledger ends with the three entries.
C13_Witness ==
  \E i \in Ids :
    LET n == Len(activity[i])
    IN /\ n >= 3
       /\ issues[i].status = "closed"
       /\ activity[i][n - 2].details = "Auto-start on close"
       /\ activity[i][n - 1].action = "work_completed"
       /\ activity[i][n].action = "status_changed"

\* C14: StartWork on an open issue whose started_at is unset sets the status to
\* in_progress, sets started_at to the time of the call, and appends exactly
\* work_started followed by status_changed to the ledger of the issue.
C14_StartWorkEffect ==
  [][\A i \in Ids :
       (issues[i].status = "open" /\ issues[i].started_at = NoTime /\ StartWorkStep(i))
         => LET n == Len(activity[i])
            IN /\ issues'[i].status = "in_progress"
               /\ issues'[i].started_at \in clock .. clock'
               /\ Len(activity'[i]) = n + 2
               /\ SubSeq(activity'[i], 1, n) = activity[i]
               /\ activity'[i][n + 1].action = "work_started"
               /\ activity'[i][n + 2].action = "status_changed"]_vars

\* C15: the ledger is append-only: across every step, the ledger each issue had
\* before the step is a prefix of the ledger it has after it.
C15_LedgerAppendOnly ==
  [][\A i \in Ids :
       /\ Len(activity'[i]) >= Len(activity[i])
       /\ SubSeq(activity'[i], 1, Len(activity[i])) = activity[i]]_vars

\* An issue the component was mounted with has gained entries after those it had.
C15_Witness ==
  \E i \in DOMAIN initialLogs :
    /\ Len(activity[i]) >= Len(initialLogs[i]) + 2
    /\ SubSeq(activity[i], 1, Len(initialLogs[i])) = initialLogs[i]

\* C16: Create with no assignee supplied, for any department, yields an issue
\* that is open, has started_at unset and no assignee, and whose ledger is
\* exactly one entry, created.
C16_CreateWithoutAssignee ==
  [][\A a \in Actors, f \in NewIssueForms :
       (f.assignedTechId = "" /\ (createIssueAction(a, f) \/ handleSubmitIssue(a, f)))
         => LET n == Len(issues')
            IN /\ issues'[n].status = "open"
               /\ issues'[n].started_at = NoTime
               /\ issues'[n].assigned = NULL
               /\ Len(activity'[n]) = 1
               /\ activity'[n][1].action = "created"]_vars

\* C16, as amended: Create with no assignee supplied yields an issue that is open
\* with started_at and resolved_at unset; when the department has a technician
\* the component assigns that technician and the ledger is created followed by
\* assigned ("Initial assignee: <name>"); when it has none the issue has no
\* assignee and the ledger is exactly one entry, created.
C16_CreateAutoAssigns ==
  [][\A a \in Actors, f \in {g \in NewIssueForms : Len(issues') = Len(issues) + 1} :
       (f.assignedTechId = "" /\ (createIssueAction(a, f) \/ handleSubmitIssue(a, f)))
         => LET n == Len(issues')
                ofDept == {t \in localTechs : t.dept = f.department}
            IN /\ issues'[n].status = "open"
               /\ issues'[n].started_at = NoTime
               /\ issues'[n].resolved_at = NoTime
               /\ activity'[n][1].action = "created"
               /\ IF ofDept = {}
                    THEN /\ issues'[n].assigned = NULL
                         /\ Len(activity'[n]) = 1
                    ELSE /\ \E t \in ofDept :
                              /\ issues'[n].assigned = t.id
                              /\ activity'[n][2].details = "Initial assignee: " \o t.name
                         /\ Len(activity'[n]) = 2
                         /\ activity'[n][2].action = "assigned"]_vars

\* A report for Facilities has been filed and is assigned to the technician of
\* that department, and a report for Cleaning has no assignee.
C16_Witness ==
  \E n \in Ids :
    /\ n > Len(initialIssues)
    /\ \/ /\ issues[n].department = "Facilities"
          /\ issues[n].assigned = "tech-mike"
          /\ Len(activity[n]) = 2
       \/ /\ issues[n].department = "Cleaning"
          /\ issues[n].assigned = NULL
          /\ Len(activity[n]) = 1

\* C17: Create with an assignee supplied yields a ledger of exactly two entries,
\* created followed by assigned, and an issue that is open with started_at and
\* resolved_at unset.
C17_CreateWithAssignee ==
  [][\A f \in {g \in CreateInputs \cup NewIssueForms : Len(issues') = Len(issues) + 1} :
       (f.assignedTechId # "" /\ CreateStep(f))
         => LET n == Len(issues')
            IN /\ issues'[n].status = "open"
               /\ issues'[n].started_at = NoTime
               /\ issues'[n].resolved_at = NoTime
               /\ issues'[n].assigned = f.assignedTechId
               /\ Len(activity'[n]) = 2
               /\ activity'[n][1].action = "created"
               /\ activity'[n][2].action = "assigned"]_vars

\* An issue created through the adapter with an assignee: still open, its ledger
\* the two entries of the creation.
C17_Witness ==
  \E n \in Ids :
    /\ issues[n].assigned \in {"tech-mike", "tech-sarah"}
    /\ issues[n].status = "open"
    /\ Len(activity[n]) = 2
    /\ activity[n][1].action = "created"
    /\ activity[n][2].details = "Initial assignee: " \o DisplayName(issues[n].assigned)

C19_AssignDetailsBothSides ==
  [][\A a \in Actors, i \in Ids :
       AssignStep(a, i)
         => LET n == Len(activity[i])
            IN /\ Len(activity'[i]) = n + 1
               /\ activity'[i][n + 1].action = "assigned"
               /\ activity'[i][n + 1].details
                    = "Assignee changed: " \o Shown(issues[i].assigned)
                        \o " → " \o Shown(issues'[i].assigned)]_vars

\* C20: the entries one step adds to a ledger all carry the same timestamp.
C20_OneTimestampPerOperation ==
  [][\A i \in DOMAIN activity' :
       LET n == IF i \in Ids THEN Len(activity[i]) ELSE 0
       IN \A j, k \in (n + 1) .. Len(activity'[i]) :
            activity'[i][j].at = activity'[i][k].at]_vars

\* C21: Close on an issue whose started_at is unset sets started_at and resolved_at
\* to the same instant, read during the call, so that the time to fix is zero and
\* is displayed as "0m". (A Mark Complete control of the component is offered only
\* for an issue in progress, whose started_at is set: the case arises through
\* issues.updateStatus.)
C21_CloseWithoutStartIsInstant ==
  [][\A i \in Ids :
       (issues[i].started_at = NoTime /\ CloseStep(i))
         => /\ issues'[i].status = "closed"
            /\ issues'[i].started_at = issues'[i].resolved_at
            /\ issues'[i].resolved_at \in clock .. clock'
            /\ issues'[i].resolved_at - issues'[i].started_at = 0
            /\ formatDuration(issues'[i].resolved_at - issues'[i].started_at) = "0m"]_vars

\* An issue closed without a prior start: it carries the auto-start entry and its
\* two timestamps are the same instant.
C21_Witness ==
  \E i \in Ids :
    /\ issues[i].status = "closed"
    /\ \E k \in DOMAIN activity[i] : activity[i][k].details = "Auto-start on close"
    /\ IsSet(issues[i].started_at)
    /\ issues[i].started_at = issues[i].resolved_at
    /\ formatDuration(issues[i].resolved_at - issues[i].started_at) = "0m"

\* C22: for every issue, the target-completion timestamp equals the creation
\* timestamp plus exactly 72 hours.
C22_TargetIsCreationPlus72h ==
  \A i \in Ids : issues[i].target_at = issues[i].created_at + SLA

\* C23: a failed lookup of the assignee's display name does not abort Create or
\* Assign: the issue is created, or its assignee changed, and the assigned entry is
\* appended with the raw identifier of the assignee in place of the name.
C23_NameLookupFailureIsNotFatal ==
  [][/\ \A uid \in PersonIds, f \in CreateInputs :
          (Assignee(f) # NULL /\ AdapterCreate(uid, f, NULL))
            => LET n == Len(issues')
               IN /\ n = Len(issues) + 1
                  /\ issues'[n].assigned = Assignee(f)
                  /\ Len(activity'[n]) = 2
                  /\ activity'[n][2].action = "assigned"
                  /\ activity'[n][2].details = "Initial assignee: " \o Assignee(f)
     /\ \A uid \in PersonIds, i \in Ids, tech \in TechInputs \ {""} :
          AdapterAssign(uid, i, tech, NULL)
            => LET n == Len(activity'[i])
               IN /\ issues'[i].assigned = tech
                  /\ n = Len(activity[i]) + 1
                  /\ activity'[i][n].action = "assigned"
                  /\ activity'[i][n].details = "Assigned to " \o tech]_vars

\* The lookup of a name that is on file has failed: the issue is assigned to
\* tech-mike, whose profile says Mike Johnson, and the entry of the assignment
\* shows the identifier.
C23_Witness ==
  \E i \in Ids : \E k \in DOMAIN activity[i] :
    /\ issues[i].assigned = "tech-mike"
    /\ ProfileName("tech-mike") # NULL
    /\ activity[i][k].action = "assigned"
    /\ activity[i][k].details \in {"Initial assignee: tech-mike", "Assigned to tech-mike"}

\* C24: for a ledger of n entries the summary shows exactly the min(3, n) entries
\* appended last, oldest first, and the cloud windowing (rows newest first, the
\* first three, reversed) shows the same entries as the local windowing (the last
\* three of the chronological list).
C24_WindowIsLastThree ==
  \A i \in Ids :
    LET n == Len(activity[i])
        m == IF n < 3 THEN n ELSE 3
        last == SubSeq(activity[i], n - m + 1, n)
    IN /\ LocalWindow(activity[i]) = last
       /\ \A list \in NewestFirst(activity[i]) :
            /\ Len(list) = n
            /\ LocalWindow(CloudWindow(list)) = last

\* C25: formatDuration returns exactly "0m", "0m", "1m", "1h" and "1d 1h" for 0,
\* 59999, 60000, 3600000 and 90000000 milliseconds, and "1m" for 61000.
C25_FormatDurationSamples ==
  timing.text # NULL =>
    /\ timing.ms = 0 => timing.text = "0m"
    /\ timing.ms = 59999 => timing.text = "0m"
    /\ timing.ms = 60000 => timing.text = "1m"
    /\ timing.ms = 61000 => timing.text = "1m"
    /\ timing.ms = 3600000 => timing.text = "1h"
    /\ timing.ms = 90000000 => timing.text = "1d 1h"

\* One of the sample durations has been formatted: 59999 ms, shown as "0m".
C25_Witness == timing.ms = 59999 /\ timing.text = "0m"

\* C27: formatDuration returns "0m" when ms <= 0, and otherwise renders the
\* decomposition of floor(ms / 60000) into days, hours < 24 and minutes < 60 as
\* "Xd Yh Zm" with the zero-valued leading units omitted and at least one unit
\* present.
C27_FormatOmitsLeadingZeroUnits ==
  timing.text # NULL =>
    IF timing.ms <= 0 THEN timing.text = "0m"
    ELSE \E d \in 0 .. MaxDays, h \in 0 .. 23, m \in 0 .. 59 :
           /\ d * 1440 + h * 60 + m = timing.ms \div 60000
           /\ timing.text =
                (IF d # 0 THEN NumberText(d) \o "d " ELSE "")
                \o (IF d # 0 \/ h # 0 THEN NumberText(h) \o "h " ELSE "")
                \o NumberText(m) \o "m"

\* C27, as amended: formatDuration returns "0m" when ms <= 0, and otherwise
\* renders the decomposition of floor(ms / 60000) into days, hours < 24 and
\* minutes < 60 with every zero-valued unit omitted, leading or not, the units
\* shown separated by one space; when days and hours are both zero the minutes
\* are shown even if zero, so that one unit is always present.
C27_FormatOmitsZeroUnits ==
  timing.text # NULL =>
    IF timing.ms <= 0 THEN timing.text = "0m"
    ELSE \E d \in 0 .. MaxDays, h \in 0 .. 23, m \in 0 .. 59 :
           /\ d * 1440 + h * 60 + m = timing.ms \div 60000
           /\ LET D == NumberText(d) \o "d"
                  H == NumberText(h) \o "h"
                  M == NumberText(m) \o "m"
              IN timing.text =
                   CASE d # 0 /\ h # 0 /\ m # 0 -> D \o " " \o H \o " " \o M
                     [] d # 0 /\ h # 0 /\ m = 0 -> D \o " " \o H
                     [] d # 0 /\ h = 0 /\ m # 0 -> D \o " " \o M
                     [] d # 0 /\ h = 0 /\ m = 0 -> D
                     [] d = 0 /\ h # 0 /\ m # 0 -> H \o " " \o M
                     [] d = 0 /\ h # 0 /\ m = 0 -> H
                     [] OTHER -> M

\* A duration with a zero-valued unit between two others has been formatted: one
\* day and five minutes, shown without the hours.
C27_Witness == timing.ms = 86400000 + 5 * 60000 + 1000 /\ timing.text = "1d 5m"

\* C26: when an issue is moved to in_progress while its started_at is already set,
\* started_at keeps its value, no work_started entry is appended, and exactly one
\* status_changed entry, "Status → in_progress", is appended.
C26_RestartKeepsStartedAt ==
  [][\A i \in Ids :
       (IsSet(issues[i].started_at) /\ StartWorkStep(i))
         => LET n == Len(activity[i])
            IN /\ issues'[i].status = "in_progress"
               /\ issues'[i].started_at = issues[i].started_at
               /\ Len(activity'[i]) = n + 1
               /\ SubSeq(activity'[i], 1, n) = activity[i]
               /\ activity'[i][n + 1].action = "status_changed"
               /\ activity'[i][n + 1].details = "Status → in_progress"]_vars

\* C28: an assign, start or close action on issue X leaves every other issue and
\* its ledger unchanged, and leaves X's identifier, title, description, area,
\* department, priority, creator, creation time and target time unchanged; start
\* and close also leave X's assignee unchanged.
C28_ActionsTouchOnlyTheirIssue ==
  [][\A i \in Ids :
       LET assigns == \E a \in Actors : AssignStep(a, i)
           moves == StartWorkStep(i) \/ CloseStep(i)
           others == /\ DOMAIN issues' = DOMAIN issues
                     /\ \A j \in Ids \ {i} :
                          issues'[j] = issues[j] /\ activity'[j] = activity[j]
           own == \A fld \in {"title", "description", "area", "department", "priority",
                               "created_by", "created_at", "target_at"} :
                    issues'[i][fld] = issues[i][fld]
           assignee == issues'[i].assigned = issues[i].assigned
       IN /\ (others /\ own) \/ ~(assigns \/ moves)
          /\ assignee \/ ~moves]_vars

\* The first issue has been assigned, started and closed while the second issue
\* and its ledger are as the component was mounted with them.
C28_Witness ==
  /\ Len(issues) >= 2
  /\ issues[1].status = "closed"
  /\ issues[1].assigned = "tech-mike"
  /\ issues[1].title = initialIssues[1].title
  /\ Len(activity[1]) > Len(initialLogs[1])
  /\ issues[2] = initialIssues[2]
  /\ activity[2] = initialLogs[2]

\* C29: in the local UI closed is terminal: Start Work acts only on an open issue,
\* Mark Complete only on an issue in progress, no control acts on a closed issue,
\* and so a closed issue and its ledger never change again.
C29_ClosedIsTerminalLocally ==
  [][\A i \in Ids :
       /\ issues[i].status = "closed"
            => (issues'[i] = issues[i] /\ activity'[i] = activity[i])
       /\ issues[i].status = "open"
            \/ ~(\E a \in Actors : startWorkAction(a, i) \/ StartWorkButton(a, i))
       /\ issues[i].status = "in_progress"
            \/ ~(\E a \in Actors : closeIssueAction(a, i) \/ MarkCompleteButton(a, i))
       /\ issues[i].status # "closed"
            \/ ~(\E a \in Actors, techId \in TechInputs : assignIssue(a, i, techId))]_vars

\* The second issue was closed, and the first issue has been acted on later: the
\* closed issue has its three closing entries as its last ones.
C29_Witness ==
  /\ Len(issues) >= 2
  /\ issues[2].status = "closed"
  /\ activity[2][Len(activity[2])].details = "Status → closed"
  /\ \E k \in DOMAIN activity[1] : activity[1][k].at > issues[2].resolved_at

\* C30: updateIssueStatus and issues.updateStatus are equivalent: after every
\* sequence of status requests made of the same initial issue, both have the same
\* status, the same set/unset pattern of started_at and resolved_at, and the same
\* sequence of ledger action tags.
C30_LocalAndAdapterStatusAgree ==
  /\ Pattern(issues[1]) = Pattern(issues[2])
  /\ Tags(activity[1]) = Tags(activity[2])

\* The issue that was open has been closed without a start, reopened and started
\* again, in the component and in the table alike.
C30_Witness ==
  /\ issues[1].title = initialIssues[1].title
  /\ issues[1].status = "in_progress" /\ issues[2].status = "in_progress"
  /\ IsSet(issues[1].resolved_at) /\ IsSet(issues[2].resolved_at)
  /\ Len(activity[2]) = Len(initialLogs[1]) + 5
  /\ activity[2][Len(initialLogs[1]) + 1].details = "Auto-start on close"
  /\ activity[1][Len(initialLogs[1]) + 1].details = "Auto-start on close"

====
